---- MODULE Spec2Model ----
\* Model of sysfetch-rs system-fact collection (src/system_info.rs).
\* Strings are sequences of one-character strings, so that splitting,
\* trimming, searching and formatting are computed as the code computes them.
EXTENDS Integers, Sequences, FiniteSets, TLC

\* ---------------------------------------------------------------- bounds
MaxLines == 3
MaxFragments == 3
MaxCores == 3
MaxDays == 2
MaxSetTermVars == 2

\* ------------------------------------------------- std string operations
Whitespace == {" ", "\t", "\r", "\n"}

StartsWith(s, p) == Len(s) >= Len(p) /\ SubSeq(s, 1, Len(p)) = p

EndsWith(s, p) == Len(s) >= Len(p) /\ SubSeq(s, Len(s) - Len(p) + 1, Len(s)) = p

DropFirst(s, n) == SubSeq(s, n + 1, Len(s))

\* str::find: 0-based offset of the first occurrence, -1 for None
Find(s, p) ==
    LET hits == {i \in 0..(Len(s) - Len(p)) : SubSeq(s, i + 1, i + Len(p)) = p}
    IN  IF hits = {} THEN -1 ELSE CHOOSE i \in hits : \A j \in hits : i <= j

Contains(s, p) == Find(s, p) >= 0

RECURSIVE Split(_, _)
Split(s, c) ==
    LET i == Find(s, <<c>>)
    IN  IF i < 0 THEN <<s>>
        ELSE <<SubSeq(s, 1, i)>> \o Split(DropFirst(s, i + 1), c)

Last(parts) == parts[Len(parts)]

RECURSIVE TrimStart(_)
TrimStart(s) ==
    IF Len(s) > 0 /\ s[1] \in Whitespace THEN TrimStart(Tail(s)) ELSE s

RECURSIVE TrimEnd(_)
TrimEnd(s) ==
    IF Len(s) > 0 /\ s[Len(s)] \in Whitespace
    THEN TrimEnd(SubSeq(s, 1, Len(s) - 1)) ELSE s

Trim(s) == TrimEnd(TrimStart(s))

RECURSIVE TrimStartMatches(_, _)
TrimStartMatches(s, p) ==
    IF StartsWith(s, p) THEN TrimStartMatches(DropFirst(s, Len(p)), p) ELSE s

RECURSIVE TrimEndMatches(_, _)
TrimEndMatches(s, p) ==
    IF EndsWith(s, p)
    THEN TrimEndMatches(SubSeq(s, 1, Len(s) - Len(p)), p) ELSE s

StripPrefix(s, p) ==
    IF StartsWith(s, p) THEN [ok |-> TRUE, v |-> DropFirst(s, Len(p))]
    ELSE [ok |-> FALSE, v |-> <<>>]

RECURSIVE Replace(_, _, _)
Replace(s, from, to) ==
    LET i == Find(s, from)
    IN  IF i < 0 THEN s
        ELSE SubSeq(s, 1, i) \o to \o Replace(DropFirst(s, i + Len(from)), from, to)

StripCr(l) == IF EndsWith(l, <<"\r">>) THEN SubSeq(l, 1, Len(l) - 1) ELSE l

\* str::lines: split on "\n", no final empty line, a trailing "\r" removed
Lines(text) ==
    LET raw  == Split(text, "\n")
        kept == IF Last(raw) = <<>> THEN SubSeq(raw, 1, Len(raw) - 1) ELSE raw
    IN  [i \in 1..Len(kept) |-> StripCr(kept[i])]

LowerOf ==
    [c \in {"A", "D", "E", "I", "L", "M", "N", "O", "R", "T", "V", "G", "X", "P"} |->
        CASE c = "A" -> "a" [] c = "D" -> "d" [] c = "E" -> "e" [] c = "I" -> "i"
          [] c = "L" -> "l" [] c = "M" -> "m" [] c = "N" -> "n" [] c = "O" -> "o"
          [] c = "R" -> "r" [] c = "T" -> "t" [] c = "V" -> "v" [] c = "G" -> "g"
          [] c = "X" -> "x" [] c = "P" -> "p"]

ToLowercase(s) ==
    [i \in 1..Len(s) |-> IF s[i] \in DOMAIN LowerOf THEN LowerOf[s[i]] ELSE s[i]]

Digits == <<"0", "1", "2", "3", "4", "5", "6", "7", "8", "9">>

\* Display of an unsigned integer, as format!("{}") prints it
RECURSIVE U64ToString(_)
U64ToString(n) ==
    IF n < 10 THEN <<Digits[n + 1]>>
    ELSE U64ToString(n \div 10) \o <<Digits[(n % 10) + 1]>>

IsDigit(c) == \E i \in 1..10 : Digits[i] = c

RECURSIVE StripZeros(_)
StripZeros(s) == IF Len(s) > 1 /\ s[1] = "0" THEN StripZeros(Tail(s)) ELSE s

DigitVal(c) == (CHOOSE i \in 1..10 : Digits[i] = c) - 1

\* lexicographic <= on digit strings of equal length
RECURSIVE DigitsLeq(_, _)
DigitsLeq(a, b) ==
    IF Len(a) = 0 THEN TRUE
    ELSE IF DigitVal(a[1]) < DigitVal(b[1]) THEN TRUE
    ELSE IF DigitVal(a[1]) > DigitVal(b[1]) THEN FALSE
    ELSE DigitsLeq(Tail(a), Tail(b))

U32Max == <<"4", "2", "9", "4", "9", "6", "7", "2", "9", "5">>

\* str::parse::<u32>: optional "+", then one or more digits, value <= u32::MAX.
\* The value is kept as its canonical decimal text (what "{}" prints).
ParseU32(s) ==
    LET body == IF Len(s) > 0 /\ s[1] = "+" THEN Tail(s) ELSE s
        norm == StripZeros(body)
        good == /\ Len(body) > 0
                /\ \A i \in 1..Len(body) : IsDigit(body[i])
                /\ \/ Len(norm) < Len(U32Max)
                   \/ Len(norm) = Len(U32Max) /\ DigitsLeq(norm, U32Max)
    IN  IF good THEN [ok |-> TRUE, v |-> norm] ELSE [ok |-> FALSE, v |-> <<>>]

Some(v) == [ok |-> TRUE, v |-> v]

None == [ok |-> FALSE, v |-> <<>>]

UnwrapOr(o, d) == IF o.ok THEN o.v ELSE d

\* ---------------------------------------------------------------- data
Unknown == <<"U", "n", "k", "n", "o", "w", "n">>
UnknownGPU == <<"U", "n", "k", "n", "o", "w", "n", " ", "G", "P", "U">>
UnknownIP == <<"U", "n", "k", "n", "o", "w", "n", " ", "I", "P">>
UnknownShell == <<"U", "n", "k", "n", "o", "w", "n", " ", "S", "h", "e", "l", "l">>
UnknownTerminal == <<"U", "n", "k", "n", "o", "w", "n", " ", "T", "e", "r", "m", "i", "n", "a", "l">>

GpuInfo(name, vendor) == [name |-> name, vendor |-> vendor]

CpuInfo(model, cores, frequency) ==
    [model |-> model, cores |-> cores, frequency |-> frequency]

\* ------------------------------------------------------- format_uptime
\* variant: the hour count is not reduced modulo one day
format_uptime_hours_not_reduced(seconds) ==
    LET days    == seconds \div 86400
        hours   == seconds \div 3600
        minutes == (seconds % 3600) \div 60
    IN  IF days > 0
        THEN U64ToString(days) \o <<"d", " ">> \o U64ToString(hours) \o <<"h", " ">>
                 \o U64ToString(minutes) \o <<"m">>
        ELSE IF hours > 0
        THEN U64ToString(hours) \o <<"h", " ">> \o U64ToString(minutes) \o <<"m">>
        ELSE U64ToString(minutes) \o <<"m">>

format_uptime(seconds) ==
    LET days    == seconds \div 86400
        hours   == (seconds % 86400) \div 3600
        minutes == (seconds % 3600) \div 60
    IN  IF days > 0
        THEN U64ToString(days) \o <<"d", " ">> \o U64ToString(hours) \o <<"h", " ">>
                 \o U64ToString(minutes) \o <<"m">>
        ELSE IF hours > 0
        THEN U64ToString(hours) \o <<"h", " ">> \o U64ToString(minutes) \o <<"m">>
        ELSE U64ToString(minutes) \o <<"m">>

\* ----------------------------------------------------- collect_cpu_info
EmptyMap == [k \in {} |-> CpuInfo(<<>>, 0, 0)]

\* variant: every core overwrites the stored frequency of its model
CpuEntry_last_frequency(map, cpu) ==
    LET model == cpu.brand
        m1 == IF model \in DOMAIN map THEN map
              ELSE [k \in DOMAIN map \cup {model} |->
                       IF k = model THEN CpuInfo(model, 0, cpu.frequency)
                       ELSE map[k]]
    IN  [m1 EXCEPT ![model].cores = @ + 1, ![model].frequency = cpu.frequency]

\* one iteration of the loop: entry(model).or_insert(..) then cores += 1
CpuEntry(map, cpu) ==
    LET model == cpu.brand
        m1 == IF model \in DOMAIN map THEN map
              ELSE [k \in DOMAIN map \cup {model} |->
                       IF k = model THEN CpuInfo(model, 0, cpu.frequency)
                       ELSE map[k]]
    IN  [m1 EXCEPT ![model].cores = @ + 1]

RECURSIVE CpuFold(_, _)
CpuFold(cpus, map) ==
    IF Len(cpus) = 0 THEN map
    ELSE CpuFold(Tail(cpus), CpuEntry(map, Head(cpus)))

cpu_map(cpus) == CpuFold(cpus, EmptyMap)

\* into_values().collect(): the values of the HashMap in an unspecified order
collect_cpu_info(cpus) ==
    LET map == cpu_map(cpus)
        keys == DOMAIN map
        n == Cardinality(keys)
    IN  {[i \in 1..n |-> map[ord[i]]] :
            ord \in {o \in [1..n -> keys] : \A i, j \in 1..n : i # j => o[i] # o[j]}}

\* ------------------------------------------------------------ GPU probe
SentinelGpus == <<GpuInfo(UnknownGPU, Unknown)>>

\* variant: the empty list is returned as it is
OrSentinel_no_fallback(gpus) == gpus

OrSentinel(gpus) == IF Len(gpus) = 0 THEN SentinelGpus ELSE gpus

AdapterCompatibilityKey == <<"A", "d", "a", "p", "t", "e", "r", "C", "o", "m", "p", "a", "t", "i", "b", "i", "l", "i", "t", "y", "=">>
NameKey == <<"N", "a", "m", "e", "=">>

EmptyGpu == GpuInfo(<<>>, <<>>)

\* body of the `for line in output_str.lines()` loop of the Windows strategy
WindowsLine(st, rawline) ==
    LET line == Trim(rawline)
    IN  IF /\ StartsWith(line, AdapterCompatibilityKey)
           /\ Len(TrimEndMatches(line, AdapterCompatibilityKey)) > 0
        THEN [st EXCEPT !.current_gpu.vendor =
                             Trim(TrimStartMatches(line, AdapterCompatibilityKey))]
        ELSE IF StartsWith(line, NameKey) /\ Len(TrimEndMatches(line, NameKey)) > 0
        THEN LET cur == [st.current_gpu EXCEPT
                             !.name = Trim(TrimStartMatches(line, NameKey))]
             IN  IF Len(cur.name) > 0
                 THEN [gpus |-> Append(st.gpus, cur), current_gpu |-> EmptyGpu]
                 ELSE [st EXCEPT !.current_gpu = cur]
        ELSE st

RECURSIVE WindowsFold(_, _)
WindowsFold(lines, st) ==
    IF Len(lines) = 0 THEN st
    ELSE WindowsFold(Tail(lines), WindowsLine(st, Head(lines)))

WindowsParse(stdout) ==
    WindowsFold(Lines(stdout), [gpus |-> <<>>, current_gpu |-> EmptyGpu]).gpus

get_gpu_info_windows_list(out) ==
    OrSentinel(IF out.ok THEN WindowsParse(out.stdout) ELSE <<>>)

VgaClass == <<"V", "G", "A", " ", "c", "o", "m", "p", "a", "t", "i", "b", "l", "e", " ", "c", "o", "n", "t", "r", "o", "l", "l", "e", "r">>
Class3D == <<"3", "D", " ", "c", "o", "n", "t", "r", "o", "l", "l", "e", "r">>

LinuxLine(gpus, line) ==
    IF Contains(line, VgaClass) \/ Contains(line, Class3D)
    THEN LET parts == Split(line, "\"")
         IN  IF Len(parts) >= 6
             THEN Append(gpus, GpuInfo(parts[4] \o <<" ">> \o parts[6], parts[4]))
             ELSE gpus
    ELSE gpus

RECURSIVE LinuxFold(_, _)
LinuxFold(lines, gpus) ==
    IF Len(lines) = 0 THEN gpus
    ELSE LinuxFold(Tail(lines), LinuxLine(gpus, Head(lines)))

get_gpu_info_linux_list(out) ==
    OrSentinel(IF out.ok THEN LinuxFold(Lines(out.stdout), <<>>) ELSE <<>>)

NameMarker == <<"\"", "_", "n", "a", "m", "e", "\"", " ", ":", " ", "\"">>
MarkerSkip == 11

MacVendor(gpu_name) ==
    LET low == ToLowercase(gpu_name)
    IN  IF Contains(low, <<"n", "v", "i", "d", "i", "a">>) THEN <<"N", "V", "I", "D", "I", "A">>
        ELSE IF Contains(low, <<"a", "m", "d">>) \/ Contains(low, <<"r", "a", "d", "e", "o", "n">>) THEN <<"A", "M", "D">>
        ELSE IF Contains(low, <<"i", "n", "t", "e", "l">>) THEN <<"I", "n", "t", "e", "l">>
        ELSE Unknown

\* the `while let Some(start) = output_str[pos..].find(..)` loop
RECURSIVE MacScan(_, _, _)
MacScan(text, pos, gpus) ==
    LET found == Find(DropFirst(text, pos), NameMarker)
    IN  IF found < 0 THEN gpus
        ELSE LET start == pos + found + MarkerSkip
                 end == Find(DropFirst(text, start), <<"\"">>)
             IN  IF end < 0 THEN gpus
                 ELSE LET gpu_name == SubSeq(text, start + 1, start + end)
                      IN  MacScan(text, start + end,
                                  Append(gpus, GpuInfo(gpu_name, MacVendor(gpu_name))))

get_gpu_info_macos_list(out) ==
    OrSentinel(IF out.ok THEN MacScan(out.stdout, 0, <<>>) ELSE <<>>)

get_gpu_info_list(os, out) ==
    IF os = "windows" THEN get_gpu_info_windows_list(out)
    ELSE IF os = "linux" THEN get_gpu_info_linux_list(out)
    ELSE IF os = "macos" THEN get_gpu_info_macos_list(out)
    ELSE SentinelGpus

\* -------------------------------------------------------- network probe
get_local_ip(ip) == IF ip.ok THEN ip.v ELSE UnknownIP

\* ---------------------------------------------------------- shell probe
\* variant: the Windows checks come before the SHELL variable
get_shell_info_windows_first(os, e, ps) ==
    IF os = "windows"
    THEN IF e["PSModulePath"].ok THEN <<"P", "o", "w", "e", "r", "S", "h", "e", "l", "l">>
         ELSE IF e["COMSPEC"].ok
         THEN Replace(Last(Split(e["COMSPEC"].v, "\\")), <<".", "e", "x", "e">>, <<>>)
         ELSE IF e["SHELL"].ok THEN Last(Split(e["SHELL"].v, "/"))
         ELSE <<"c", "m", "d">>
    ELSE IF e["SHELL"].ok THEN Last(Split(e["SHELL"].v, "/"))
    ELSE LET shell == Trim(ps.stdout)
         IN  IF ps.ok /\ Len(shell) > 0 THEN shell ELSE UnknownShell

get_shell_info(os, e, ps) ==
    IF e["SHELL"].ok THEN Last(Split(e["SHELL"].v, "/"))
    ELSE IF os = "windows"
    THEN IF e["PSModulePath"].ok THEN <<"P", "o", "w", "e", "r", "S", "h", "e", "l", "l">>
         ELSE IF e["COMSPEC"].ok
         THEN Replace(Last(Split(e["COMSPEC"].v, "\\")), <<".", "e", "x", "e">>, <<>>)
         ELSE <<"c", "m", "d">>
    ELSE LET shell == Trim(ps.stdout)
         IN  IF ps.ok /\ Len(shell) > 0 THEN shell ELSE UnknownShell

\* ------------------------------------------------------- terminal probe
\* variant: the Konsole marker is tested before TERM_PROGRAM
terminal_vars_konsole_first ==
    <<"KONSOLE_VERSION", "TERMINAL_EMULATOR", "TERM_PROGRAM",
      "GNOME_TERMINAL_SCREEN", "XTERM_VERSION", "ALACRITTY_SOCKET",
      "KITTY_WINDOW_ID", "WEZTERM_EXECUTABLE">>

terminal_vars ==
    <<"TERM_PROGRAM", "TERMINAL_EMULATOR", "KONSOLE_VERSION",
      "GNOME_TERMINAL_SCREEN", "XTERM_VERSION", "ALACRITTY_SOCKET",
      "KITTY_WINDOW_ID", "WEZTERM_EXECUTABLE">>

TermVarResult(var, value) ==
    CASE var = "TERM_PROGRAM" -> value
      [] var = "TERMINAL_EMULATOR" -> value
      [] var = "KONSOLE_VERSION" -> <<"K", "o", "n", "s", "o", "l", "e">>
      [] var = "GNOME_TERMINAL_SCREEN" -> <<"G", "N", "O", "M", "E", " ", "T", "e", "r", "m", "i", "n", "a", "l">>
      [] var = "XTERM_VERSION" -> <<"x", "t", "e", "r", "m", " ">> \o value
      [] var = "ALACRITTY_SOCKET" -> <<"A", "l", "a", "c", "r", "i", "t", "t", "y">>
      [] var = "KITTY_WINDOW_ID" -> <<"K", "i", "t", "t", "y">>
      [] var = "WEZTERM_EXECUTABLE" -> <<"W", "e", "z", "T", "e", "r", "m">>

\* the `for var in &terminal_vars` loop, from index i on
RECURSIVE TermVarScan(_, _)
TermVarScan(e, i) ==
    IF i > Len(terminal_vars) THEN None
    ELSE IF e[terminal_vars[i]].ok
    THEN Some(TermVarResult(terminal_vars[i], e[terminal_vars[i]].v))
    ELSE TermVarScan(e, i + 1)

ParentImageName(name) ==
    CASE name = <<"W", "i", "n", "d", "o", "w", "s", "T", "e", "r", "m", "i", "n", "a", "l", ".", "e", "x", "e">> -> <<"W", "i", "n", "d", "o", "w", "s", " ", "T", "e", "r", "m", "i", "n", "a", "l">>
      [] name = <<"C", "o", "n", "E", "m", "u", "6", "4", ".", "e", "x", "e">> \/ name = <<"C", "o", "n", "E", "m", "u", ".", "e", "x", "e">> -> <<"C", "o", "n", "E", "m", "u">>
      [] name = <<"c", "m", "d", ".", "e", "x", "e">> -> <<"C", "o", "m", "m", "a", "n", "d", " ", "P", "r", "o", "m", "p", "t">>
      [] name = <<"p", "o", "w", "e", "r", "s", "h", "e", "l", "l", ".", "e", "x", "e">> -> <<"P", "o", "w", "e", "r", "S", "h", "e", "l", "l">>
      [] name = <<"p", "w", "s", "h", ".", "e", "x", "e">> -> <<"P", "o", "w", "e", "r", "S", "h", "e", "l", "l", " ", "C", "o", "r", "e">>
      [] OTHER -> Replace(name, <<".", "e", "x", "e">>, <<>>)

\* the `for parent_line in parent_str.lines()` loop
RECURSIVE ParentNameScan(_)
ParentNameScan(lines) ==
    IF Len(lines) = 0 THEN None
    ELSE LET p == StripPrefix(Head(lines), NameKey)
             name == Trim(p.v)
         IN  IF p.ok /\ Len(name) > 0 THEN Some(ParentImageName(name))
             ELSE ParentNameScan(Tail(lines))

\* outcome of `wmic process where ProcessId=<ppid> get Name`
NameQuery(wmic_name, ppid) ==
    IF ppid \in DOMAIN wmic_name THEN wmic_name[ppid]
    ELSE [ok |-> TRUE, success |-> TRUE, stdout |-> <<>>]

\* the `for line in output_str.lines()` loop over the ParentProcessId query
RECURSIVE PpidScan(_, _)
PpidScan(lines, wmic_name) ==
    IF Len(lines) = 0 THEN None
    ELSE LET p == StripPrefix(Head(lines), <<"P", "a", "r", "e", "n", "t", "P", "r", "o", "c", "e", "s", "s", "I", "d", "=">>)
             ppid == ParseU32(Trim(p.v))
             q == NameQuery(wmic_name, ppid.v)
             r == IF p.ok /\ ppid.ok /\ q.ok
                  THEN ParentNameScan(Lines(q.stdout)) ELSE None
         IN  IF r.ok THEN r ELSE PpidScan(Tail(lines), wmic_name)

WindowsTerminalInfo(e, c) ==
    IF e["WT_SESSION"].ok THEN <<"W", "i", "n", "d", "o", "w", "s", " ", "T", "e", "r", "m", "i", "n", "a", "l">>
    ELSE IF e["ConEmuPID"].ok THEN <<"C", "o", "n", "E", "m", "u">>
    ELSE IF e["CMDER_ROOT"].ok THEN <<"C", "m", "d", "e", "r">>
    ELSE LET r == IF c.wmic_ppid.ok
                  THEN PpidScan(Lines(c.wmic_ppid.stdout), c.wmic_name) ELSE None
         IN  UnwrapOr(r, <<"C", "o", "m", "m", "a", "n", "d", " ", "P", "r", "o", "m", "p", "t">>)

\* variant: an unset TERM is labelled "xterm"
UnixTerminalInfo_default_xterm(e, c) ==
    IF e["TERM"].ok
    THEN LET term == e["TERM"].v
         IN  IF term = <<"x", "t", "e", "r", "m", "-", "2", "5", "6", "c", "o", "l", "o", "r">> \/ term = <<"x", "t", "e", "r", "m">>
             THEN LET parent == Trim(c.ps_term.stdout)
                  IN  IF /\ c.ps_term.ok
                         /\ Len(parent) > 0
                         /\ parent # <<"s", "h">>
                         /\ parent # <<"b", "a", "s", "h">>
                      THEN parent ELSE <<"x", "t", "e", "r", "m">>
             ELSE IF term = <<"s", "c", "r", "e", "e", "n">> THEN <<"G", "N", "U", " ", "S", "c", "r", "e", "e", "n">>
             ELSE IF term = <<"t", "m", "u", "x">> THEN <<"t", "m", "u", "x">>
             ELSE IF Contains(term, <<"k", "i", "t", "t", "y">>) THEN <<"K", "i", "t", "t", "y">>
             ELSE IF Contains(term, <<"a", "l", "a", "c", "r", "i", "t", "t", "y">>) THEN <<"A", "l", "a", "c", "r", "i", "t", "t", "y">>
             ELSE UnknownTerminal
    ELSE <<"x", "t", "e", "r", "m">>

UnixTerminalInfo(e, c) ==
    IF e["TERM"].ok
    THEN LET term == e["TERM"].v
         IN  IF term = <<"x", "t", "e", "r", "m", "-", "2", "5", "6", "c", "o", "l", "o", "r">> \/ term = <<"x", "t", "e", "r", "m">>
             THEN LET parent == Trim(c.ps_term.stdout)
                  IN  IF /\ c.ps_term.ok
                         /\ Len(parent) > 0
                         /\ parent # <<"s", "h">>
                         /\ parent # <<"b", "a", "s", "h">>
                      THEN parent ELSE <<"x", "t", "e", "r", "m">>
             ELSE IF term = <<"s", "c", "r", "e", "e", "n">> THEN <<"G", "N", "U", " ", "S", "c", "r", "e", "e", "n">>
             ELSE IF term = <<"t", "m", "u", "x">> THEN <<"t", "m", "u", "x">>
             ELSE IF Contains(term, <<"k", "i", "t", "t", "y">>) THEN <<"K", "i", "t", "t", "y">>
             ELSE IF Contains(term, <<"a", "l", "a", "c", "r", "i", "t", "t", "y">>) THEN <<"A", "l", "a", "c", "r", "i", "t", "t", "y">>
             ELSE UnknownTerminal
    ELSE UnknownTerminal

get_terminal_info(os, e, c) ==
    LET r == TermVarScan(e, 1)
    IN  IF r.ok THEN r.v
        ELSE IF os = "windows" THEN WindowsTerminalInfo(e, c)
        ELSE UnixTerminalInfo(e, c)

\* ===================================================== the environment
TargetOs == {"windows", "linux", "macos", "other"}

TermVarNames == {terminal_vars[i] : i \in 1..Len(terminal_vars)}

EnvNames ==
    {"USER", "USERNAME", "SHELL", "PSModulePath", "COMSPEC",
     "WT_SESSION", "ConEmuPID", "CMDER_ROOT", "TERM"} \cup TermVarNames

RECURSIVE Concat(_)
Concat(ss) == IF Len(ss) = 0 THEN <<>> ELSE Head(ss) \o Concat(Tail(ss))

SeqsUpTo(S, n) == UNION {[1..k -> S] : k \in 0..n}

TextsOf(S, n) == {Concat(ss) : ss \in SeqsUpTo(S, n)}

CmdErr == [ok |-> FALSE, success |-> FALSE, stdout |-> <<>>]

CmdOk(success, stdout) == [ok |-> TRUE, success |-> success, stdout |-> stdout]

\* every outcome of Command::output(): cannot be spawned, or ran with an
\* exit status and a captured stdout
Outcomes(texts) == {CmdErr} \cup {CmdOk(s, t) : s \in BOOLEAN, t \in texts}

WmicGpuLines ==
    {<<"A", "d", "a", "p", "t", "e", "r", "C", "o", "m", "p", "a", "t", "i", "b", "i", "l", "i", "t", "y", "=", "N", "V", "I", "D", "I", "A", "\r", "\n">>, <<"A", "d", "a", "p", "t", "e", "r", "C", "o", "m", "p", "a", "t", "i", "b", "i", "l", "i", "t", "y", "=", "\r", "\n">>,
     <<"N", "a", "m", "e", "=", "G", "T", "X", "\r", "\n">>, <<"N", "a", "m", "e", "=", "\r", "\n">>, <<" ", " ", "N", "a", "m", "e", "=", " ", "R", "X", " ", "\n">>, <<"N", "a", "m", "e", "=", "N", "a", "m", "e", "=", "\n">>,
     <<"\r", "\n">>, <<"S", "t", "a", "t", "u", "s", "=", "O", "K", "\n">>}

LspciLines ==
    {<<"0", "0", ":", "0", "2", ".", "0", " ", "\"", "V", "G", "A", " ", "c", "o", "m", "p", "a", "t", "i", "b", "l", "e", " ", "c", "o", "n", "t", "r", "o", "l", "l", "e", "r", "\"", " ", "\"", "I", "n", "t", "e", "l", "\"", " ", "\"", "H", "D", " ", "5", "3", "0", "\"", " ", "-", "r", "0", "6", " ", "\"", "D", "e", "l", "l", "\"", " ", "\"", "x", "\"", "\n">>,
     <<"0", "1", ":", "0", "0", ".", "0", " ", "\"", "3", "D", " ", "c", "o", "n", "t", "r", "o", "l", "l", "e", "r", "\"", " ", "\"", "N", "V", "I", "D", "I", "A", "\"", " ", "\"", "G", "M", "1", "0", "7", "\"", "\n">>,
     <<"0", "0", ":", "1", "f", ".", "0", " ", "\"", "I", "S", "A", " ", "b", "r", "i", "d", "g", "e", "\"", " ", "\"", "I", "n", "t", "e", "l", "\"", " ", "\"", "L", "P", "C", "\"", "\n">>,
     <<"0", "2", ":", "0", "0", ".", "0", " ", "\"", "V", "G", "A", " ", "c", "o", "m", "p", "a", "t", "i", "b", "l", "e", " ", "c", "o", "n", "t", "r", "o", "l", "l", "e", "r", "\"", " ", "\"", "A", "M", "D", "\n">>,
     <<"V", "G", "A", " ", "c", "o", "m", "p", "a", "t", "i", "b", "l", "e", " ", "c", "o", "n", "t", "r", "o", "l", "l", "e", "r", "\n">>}

ProfilerFragments ==
    {<<"\"", "_", "n", "a", "m", "e", "\"", " ", ":", " ", "\"", "A", "p", "p", "l", "e", " ", "M", "1", "\"", ",">>, <<"\"", "_", "n", "a", "m", "e", "\"", " ", ":", " ", "\"", "A", "M", "D", " ", "R", "a", "d", "e", "o", "n", "\"">>, <<"\"", "_", "n", "a", "m", "e", "\"", " ", ":", " ", "\"", "I", "n", "t", "e", "l", " ", "I", "r", "i", "s">>,
     <<"{", " ", "\"", "s", "p", "d", "i", "s", "p", "l", "a", "y", "s", "_", "v", "r", "a", "m", "\"", " ", ":", " ", "1", " ", "}">>, <<"_", "n", "a", "m", "e", "\"", " ", ":", " ", "\"", "N", "V", "I", "D", "I", "A", " ", "G", "T", "\"">>, <<"\n">>}

GpuOutcomes(os) ==
    IF os = "windows" THEN Outcomes(TextsOf(WmicGpuLines, MaxLines))
    ELSE IF os = "linux" THEN Outcomes(TextsOf(LspciLines, MaxLines))
    ELSE IF os = "macos" THEN Outcomes(TextsOf(ProfilerFragments, MaxFragments))
    ELSE Outcomes({<<>>, <<"N", "a", "m", "e", "=", "G", "T", "X", "\n">>})

PsOutcomes ==
    {CmdErr, CmdOk(TRUE, <<>>), CmdOk(FALSE, <<>>), CmdOk(TRUE, <<"b", "a", "s", "h", "\n">>),
     CmdOk(TRUE, <<" ", "z", "s", "h", " ", "\n">>), CmdOk(TRUE, <<"s", "h", "\n">>), CmdOk(TRUE, <<"k", "o", "n", "s", "o", "l", "e", "\n">>),
     CmdOk(TRUE, <<"s", "y", "s", "f", "e", "t", "c", "h", "-", "r", "s", "\n">>)}

\* std::process::id()
ProcessId == <<"4", "3", "2", "1">>

ParentPid == <<"1", "2", "3", "4">>

WmicPpidOutcomes ==
    {CmdErr, CmdOk(TRUE, <<>>), CmdOk(TRUE, <<"\r", "\n", "P", "a", "r", "e", "n", "t", "P", "r", "o", "c", "e", "s", "s", "I", "d", "=", "1", "2", "3", "4", "\r", "\n">>),
     CmdOk(TRUE, <<"P", "a", "r", "e", "n", "t", "P", "r", "o", "c", "e", "s", "s", "I", "d", "=", "a", "b", "c", "\n", "P", "a", "r", "e", "n", "t", "P", "r", "o", "c", "e", "s", "s", "I", "d", "=", " ", "+", "0", "1", "2", "3", "4", " ", "\n">>),
     CmdOk(TRUE, <<"P", "a", "r", "e", "n", "t", "P", "r", "o", "c", "e", "s", "s", "I", "d", "=", "4", "2", "9", "4", "9", "6", "7", "2", "9", "6", "\n">>),
     CmdOk(TRUE, <<"P", "a", "r", "e", "n", "t", "P", "r", "o", "c", "e", "s", "s", "I", "d", "=", "7", "7", "\n">>)}

WmicNameOutcomes ==
    {CmdErr, CmdOk(TRUE, <<"\r", "\n", "N", "a", "m", "e", "=", "W", "i", "n", "d", "o", "w", "s", "T", "e", "r", "m", "i", "n", "a", "l", ".", "e", "x", "e", "\r", "\n">>),
     CmdOk(TRUE, <<"N", "a", "m", "e", "=", "c", "m", "d", ".", "e", "x", "e", "\n">>), CmdOk(TRUE, <<"N", "a", "m", "e", "=", " ", "p", "w", "s", "h", ".", "e", "x", "e", " ", "\n">>),
     CmdOk(TRUE, <<"N", "a", "m", "e", "=", "\n", "N", "a", "m", "e", "=", "f", "a", "r", ".", "e", "x", "e", "\n">>), CmdOk(TRUE, <<"C", "a", "p", "t", "i", "o", "n", "=", "x", "\n">>)}

ShellValues ==
    {None, Some(<<"/", "b", "i", "n", "/", "z", "s", "h">>), Some(<<"z", "s", "h">>), Some(<<"/", "b", "i", "n", "/">>), Some(<<>>),
     Some(<<"/", "u", "s", "r", "/", "l", "o", "c", "a", "l", "/", "b", "i", "n", "/", "f", "i", "s", "h">>)}

ComspecValues ==
    {None, Some(<<"C", ":", "\\", "W", "i", "n", "d", "o", "w", "s", "\\", "s", "y", "s", "t", "e", "m", "3", "2", "\\", "c", "m", "d", ".", "e", "x", "e">>), Some(<<"C", ":", "\\", "t", "o", "o", "l", "s", "\\">>),
     Some(<<"t", "c", "c", ".", "e", "x", "e">>)}

TermValues ==
    {None, Some(<<"x", "t", "e", "r", "m">>), Some(<<"x", "t", "e", "r", "m", "-", "2", "5", "6", "c", "o", "l", "o", "r">>), Some(<<"s", "c", "r", "e", "e", "n">>), Some(<<"t", "m", "u", "x">>),
     Some(<<"x", "t", "e", "r", "m", "-", "k", "i", "t", "t", "y">>), Some(<<"a", "l", "a", "c", "r", "i", "t", "t", "y", "-", "d", "i", "r", "e", "c", "t">>), Some(<<"v", "t", "1", "0", "0">>), Some(<<>>)}

TermVarValue ==
    [n \in TermVarNames |->
        CASE n = "TERM_PROGRAM" -> <<"i", "T", "e", "r", "m", ".", "a", "p", "p">>
          [] n = "TERMINAL_EMULATOR" -> <<"J", "e", "d", "i", "T", "e", "r", "m">>
          [] n = "KONSOLE_VERSION" -> <<"2", "2", "1", "2", "0", "3">>
          [] n = "GNOME_TERMINAL_SCREEN" -> <<"/", "o", "r", "g", "/", "g", "n", "o", "m", "e">>
          [] n = "XTERM_VERSION" -> <<"X", "T", "e", "r", "m", "(", "3", "8", "0", ")">>
          [] n = "ALACRITTY_SOCKET" -> <<"/", "r", "u", "n", "/", "a", ".", "s", "o", "c", "k">>
          [] n = "KITTY_WINDOW_ID" -> <<"1">>
          [] n = "WEZTERM_EXECUTABLE" -> <<"/", "u", "s", "r", "/", "b", "i", "n", "/", "w", "e", "z", "t", "e", "r", "m">>]

Flag == {None, Some(<<"1">>)}

DefaultEnv == [n \in EnvNames |-> None]

DefaultCmds ==
    [gpu |-> CmdErr, ps_shell |-> CmdErr, ps_parent |-> CmdErr, ps_term |-> CmdErr,
     wmic_ppid |-> CmdErr, wmic_name |-> [p \in {ParentPid} |-> CmdErr]]

\* outcome of `ps -p <pid> -o comm=`: ps_shell is the process table's answer
\* for this process, ps_parent its answer for the parent process
PsQuery(c, pid) ==
    IF pid = ProcessId THEN c.ps_shell
    ELSE IF pid = ParentPid THEN c.ps_parent
    ELSE CmdOk(FALSE, <<>>)

\* the pid get_shell_info hands to ps
ShellQueryPid == ProcessId

Core(brand, frequency) == [brand |-> brand, frequency |-> frequency]

DefaultSys ==
    [name |-> Some(<<"L", "i", "n", "u", "x">>), os_version |-> Some(<<"6", ".", "1">>),
     kernel_version |-> Some(<<"6", ".", "1", ".", "0">>), host_name |-> Some(<<"b", "o", "x">>),
     arch |-> <<"x", "8", "6", "_", "6", "4">>, uptime |-> 3661,
     cpus |-> <<Core(<<"i", "7">>, 2400)>>,
     total_memory |-> 2048, used_memory |-> 1024,
     local_ip |-> Some(<<"1", "0", ".", "0", ".", "0", ".", "2">>)]

EmptyInfo ==
    [os_name |-> <<>>, os_version |-> <<>>, os_arch |-> <<>>,
     kernel_version |-> <<>>, hostname |-> <<>>, username |-> <<>>,
     uptime |-> <<>>, cpus |-> <<>>, memory_total |-> 0, memory_used |-> 0,
     gpus |-> <<>>, local_ip |-> <<>>, shell |-> <<>>, terminal |-> <<>>]

\* ======================================================= state machine
VARIABLES pc, target_os, env, sys, cmds, info, result, trace, scan

vars == <<pc, target_os, env, sys, cmds, info, result, trace, scan>>

inputs == <<target_os, env, sys, cmds>>

\* state on entry to SystemInfo::collect()
\* `pos` and `gpus` on entry to the macOS scan loop
ScanStart == [pos |-> 0, gpus |-> <<>>]

Start ==
    /\ pc = "basic"
    /\ info = EmptyInfo
    /\ result = "pending"
    /\ trace = <<>>
    /\ scan = ScanStart

\* environments that exercise the GPU probe
InitGpu ==
    /\ Start
    /\ target_os \in TargetOs
    /\ env = DefaultEnv
    /\ sys = DefaultSys
    /\ \E out \in GpuOutcomes(target_os) : cmds = [DefaultCmds EXCEPT !.gpu = out]

\* environments that exercise the shell probe
InitShell ==
    /\ Start
    /\ target_os \in TargetOs
    /\ sys = DefaultSys
    /\ \E sh \in ShellValues, psm \in Flag, cs \in ComspecValues :
           env = [DefaultEnv EXCEPT !["SHELL"] = sh, !["PSModulePath"] = psm,
                                    !["COMSPEC"] = cs]
    /\ \E ps \in PsOutcomes, pp \in PsOutcomes :
           cmds = [DefaultCmds EXCEPT !.ps_shell = ps, !.ps_parent = pp]

TermVarEnvs ==
    {[n \in EnvNames |-> IF n \in on THEN Some(TermVarValue[n]) ELSE None] :
        on \in {s \in SUBSET TermVarNames : Cardinality(s) <= MaxSetTermVars}}

\* environments that exercise the terminal probe
InitTerm ==
    /\ Start
    /\ target_os \in TargetOs
    /\ sys = DefaultSys
    /\ \E base \in TermVarEnvs :
         IF target_os = "windows"
         THEN /\ \E wt \in Flag, ce \in Flag, cm \in Flag :
                    env = [base EXCEPT !["WT_SESSION"] = wt, !["ConEmuPID"] = ce,
                                       !["CMDER_ROOT"] = cm]
              /\ \E pp \in WmicPpidOutcomes, nm \in WmicNameOutcomes :
                    cmds = [DefaultCmds EXCEPT !.wmic_ppid = pp,
                                               !.wmic_name = [p \in {ParentPid} |-> nm]]
         ELSE /\ \E t \in TermValues : env = [base EXCEPT !["TERM"] = t]
              /\ \E ps \in PsOutcomes : cmds = [DefaultCmds EXCEPT !.ps_term = ps]

UptimeSamples ==
    {d * 86400 + h * 3600 + m * 60 + s :
        d \in 0..MaxDays, h \in {0, 1, 23}, m \in {0, 1, 59}, s \in {0, 1, 59}}

\* environments that exercise format_uptime
InitUptime ==
    /\ Start
    /\ target_os = "linux"
    /\ env = DefaultEnv
    /\ cmds = DefaultCmds
    /\ \E u \in UptimeSamples : sys = [DefaultSys EXCEPT !.uptime = u]

CoreSet == {Core(b, f) : b \in {<<"i", "7">>, <<"M", "1">>, <<>>}, f \in {0, 2400, 3200}}

\* environments that exercise collect_cpu_info
InitCpu ==
    /\ Start
    /\ target_os = "linux"
    /\ env = DefaultEnv
    /\ cmds = DefaultCmds
    /\ \E cs \in SeqsUpTo(CoreSet, MaxCores) : sys = [DefaultSys EXCEPT !.cpus = cs]

OptName == {None, Some(<<"x">>)}

\* environments for a whole collect() pass: every probe can fail or succeed
Init ==
    /\ Start
    /\ target_os \in TargetOs
    /\ \E n \in OptName, h \in OptName, ip \in OptName :
           sys = [DefaultSys EXCEPT !.name = n, !.os_version = n,
                                    !.kernel_version = h, !.host_name = h,
                                    !.local_ip = ip]
    /\ \E u \in {None, Some(<<>>), Some(<<"b", "o", "b">>)}, un \in {None, Some(<<"a", "l">>)},
          sh \in {None, Some(<<"/", "b", "i", "n", "/", "z", "s", "h">>), Some(<<"/", "b", "i", "n", "/">>), Some(<<>>)},
          tp \in {None, Some(<<>>), Some(<<"i", "T", "e", "r", "m", ".", "a", "p", "p">>)},
          t \in {None, Some(<<"x", "t", "e", "r", "m">>)} :
           env = [DefaultEnv EXCEPT !["USER"] = u, !["USERNAME"] = un,
                                    !["SHELL"] = sh, !["TERM_PROGRAM"] = tp,
                                    !["TERM"] = t]
    /\ \E g \in {CmdErr, CmdOk(TRUE, <<>>), CmdOk(TRUE, <<"N", "a", "m", "e", "=", "G", "T", "X", "\n">>)},
          ps \in {CmdErr, CmdOk(TRUE, <<"b", "a", "s", "h", "\n">>)} :
           cmds = [DefaultCmds EXCEPT !.gpu = g, !.ps_shell = ps, !.ps_term = ps]

\* ------------------------------------------------ SystemInfo::collect
CollectBasic ==
    /\ pc = "basic"
    /\ info' = [info EXCEPT
           !.os_name = UnwrapOr(sys.name, Unknown),
           !.os_version = UnwrapOr(sys.os_version, Unknown),
           !.os_arch = sys.arch,
           !.kernel_version = UnwrapOr(sys.kernel_version, Unknown),
           !.hostname = UnwrapOr(sys.host_name, Unknown),
           !.username = IF env["USER"].ok THEN env["USER"].v
                        ELSE UnwrapOr(env["USERNAME"], Unknown)]
    /\ pc' = "uptime"
    /\ UNCHANGED <<inputs, scan, result, trace>>

CollectUptime ==
    /\ pc = "uptime"
    /\ info' = [info EXCEPT !.uptime = format_uptime(sys.uptime)]
    /\ pc' = "cpu"
    /\ UNCHANGED <<inputs, scan, result, trace>>

CollectCpu ==
    /\ pc = "cpu"
    /\ \E cpus \in collect_cpu_info(sys.cpus) : info' = [info EXCEPT !.cpus = cpus]
    /\ trace' = Append(trace, "cpu")
    /\ pc' = "memory"
    /\ UNCHANGED <<inputs, scan, result>>

CollectMemory ==
    /\ pc = "memory"
    /\ info' = [info EXCEPT !.memory_total = sys.total_memory,
                            !.memory_used = sys.used_memory]
    /\ pc' = "gpu"
    /\ UNCHANGED <<inputs, scan, result, trace>>

CollectGpu ==
    /\ pc = "gpu"
    /\ info' = [info EXCEPT !.gpus = get_gpu_info_list(target_os, cmds.gpu)]
    /\ trace' = Append(trace, "gpu")
    /\ pc' = "ip"
    /\ UNCHANGED <<inputs, scan, result>>

\* variant: a failed address lookup is propagated with `?`
CollectLocalIp_propagates ==
    /\ pc = "ip"
    /\ trace' = Append(trace, "network")
    /\ IF sys.local_ip.ok
       THEN /\ info' = [info EXCEPT !.local_ip = sys.local_ip.v]
            /\ pc' = "shell"
            /\ UNCHANGED result
       ELSE /\ result' = "Err"
            /\ pc' = "done"
            /\ UNCHANGED info
    /\ UNCHANGED <<inputs, scan>>

CollectLocalIp ==
    /\ pc = "ip"
    /\ info' = [info EXCEPT !.local_ip = get_local_ip(sys.local_ip)]
    /\ trace' = Append(trace, "network")
    /\ pc' = "shell"
    /\ UNCHANGED <<inputs, scan, result>>

CollectShell ==
    /\ pc = "shell"
    /\ info' = [info EXCEPT !.shell = get_shell_info(target_os, env,
                                                     PsQuery(cmds, ShellQueryPid))]
    /\ trace' = Append(trace, "shell")
    /\ pc' = "terminal"
    /\ UNCHANGED <<inputs, scan, result>>

CollectTerminal ==
    /\ pc = "terminal"
    /\ info' = [info EXCEPT !.terminal = get_terminal_info(target_os, env, cmds)]
    /\ trace' = Append(trace, "terminal")
    /\ pc' = "ret"
    /\ UNCHANGED <<inputs, scan, result>>

Return ==
    /\ pc = "ret"
    /\ result' = "Ok"
    /\ pc' = "done"
    /\ UNCHANGED <<inputs, scan, info, trace>>

Next ==
    \/ CollectBasic
    \/ CollectUptime
    \/ CollectCpu
    \/ CollectMemory
    \/ CollectGpu
    \/ CollectLocalIp
    \/ CollectShell
    \/ CollectTerminal
    \/ Return

Spec == Init /\ [][Next]_vars

SpecGpu == InitGpu /\ [][Next]_vars

SpecShell == InitShell /\ [][Next]_vars

SpecTerm == InitTerm /\ [][Next]_vars

SpecUptime == InitUptime /\ [][Next]_vars

SpecCpu == InitCpu /\ [][Next]_vars

\* shell and terminal environments together
SpecShellTerm == (InitShell \/ InitTerm) /\ [][Next]_vars

\* ------------------------- get_gpu_info_macos_list, one iteration at a time
ScanFragments == ProfilerFragments \cup {NameMarker}

\* state after system_profiler has run and its stdout has been captured
InitMacScan ==
    /\ pc = "mac_scan"
    /\ target_os = "macos"
    /\ env = DefaultEnv
    /\ sys = DefaultSys
    /\ \E s \in BOOLEAN, text \in TextsOf(ScanFragments, MaxFragments) :
           cmds = [DefaultCmds EXCEPT !.gpu = CmdOk(s, text)]
    /\ info = EmptyInfo
    /\ result = "pending"
    /\ trace = <<>>
    /\ scan = ScanStart

\* variant: the marker is taken to be ten characters long
MacIteration_short_skip(text, pos) ==
    LET found == Find(DropFirst(text, pos), NameMarker)
        start == pos + found + MarkerSkip - 1
        end == IF found < 0 THEN -1 ELSE Find(DropFirst(text, start), <<"\"">>)
    IN  [more |-> found >= 0 /\ end >= 0, start |-> start, end |-> end]

\* the two searches of one pass through the `while let` loop
MacIteration(text, pos) ==
    LET found == Find(DropFirst(text, pos), NameMarker)
        start == pos + found + MarkerSkip
        end == IF found < 0 THEN -1 ELSE Find(DropFirst(text, start), <<"\"">>)
    IN  [more |-> found >= 0 /\ end >= 0, start |-> start, end |-> end]

\* loop body: push the GpuInfo and move pos to the closing quote
MacScanStep ==
    /\ pc = "mac_scan"
    /\ LET it == MacIteration(cmds.gpu.stdout, scan.pos)
           gpu_name == SubSeq(cmds.gpu.stdout, it.start + 1, it.start + it.end)
       IN  /\ it.more
           /\ scan' = [pos |-> it.start + it.end,
                       gpus |-> Append(scan.gpus, GpuInfo(gpu_name, MacVendor(gpu_name)))]
    /\ UNCHANGED <<pc, inputs, info, result, trace>>

\* loop exit (no marker left, or `break` on a missing closing quote), then
\* the empty-list fallback and the return
MacScanExit ==
    /\ pc = "mac_scan"
    /\ ~MacIteration(cmds.gpu.stdout, scan.pos).more
    /\ info' = [info EXCEPT !.gpus = OrSentinel(scan.gpus)]
    /\ pc' = "mac_done"
    /\ UNCHANGED <<inputs, scan, result, trace>>

ScanNext ==
    \/ MacScanStep
    \/ MacScanExit

SpecMacScan == InitMacScan /\ [][ScanNext]_vars

Done == pc = "done"

\* ================================================================ claims
Probed(p) == \E i \in 1..Len(trace) : trace[i] = p

UptimeSet == pc \notin {"basic", "uptime"}

\* C1: get_gpu_info_list never returns an empty sequence, on every target
\* platform and for every outcome of the external command.
C1_GpuListNeverEmpty == Probed("gpu") => Len(info.gpus) >= 1

\* the command could not be spawned on a platform that runs one
C1_Witness ==
    /\ Probed("gpu")
    /\ target_os = "macos"
    /\ ~cmds.gpu.ok
    /\ Len(info.gpus) = 1

ProbeOrder == <<"cpu", "gpu", "network", "shell", "terminal">>

\* C2: collect() runs the CPU, GPU, network, shell and terminal probes in that
\* order, each exactly once, and for any combination of failing probes it
\* never ends in an error: when it ends it has run all five and returns Ok.
C2_CollectRunsEveryProbeOnce ==
    /\ Len(trace) <= Len(ProbeOrder)
    /\ trace = SubSeq(ProbeOrder, 1, Len(trace))
    /\ result # "Err"
    /\ Done => (result = "Ok" /\ trace = ProbeOrder)
    /\ result = "Ok" => Done

\* every fallible probe met a failure and collect() still returned Ok
C2_Witness ==
    /\ Done
    /\ result = "Ok"
    /\ trace = ProbeOrder
    /\ ~cmds.gpu.ok
    /\ ~sys.local_ip.ok
    /\ ~cmds.ps_shell.ok
    /\ ~cmds.ps_term.ok
    /\ ~sys.name.ok
    /\ \A n \in EnvNames : ~env[n].ok
    /\ info.local_ip = UnknownIP

\* C3: for the Windows, Linux and macOS strategies, whenever the external
\* command is absent, fails (a non-zero exit included) or prints nothing, the
\* GPU probe returns exactly the one-element sentinel list.
C3_FailedCommandGivesSentinel ==
    (/\ Probed("gpu")
     /\ target_os \in {"windows", "linux", "macos"}
     /\ \/ ~cmds.gpu.ok
        \/ ~cmds.gpu.success
        \/ Len(cmds.gpu.stdout) = 0)
    => info.gpus = <<[name |-> <<"U", "n", "k", "n", "o", "w", "n", " ", "G", "P", "U">>, vendor |-> <<"U", "n", "k", "n", "o", "w", "n">>]>>

C5_ShellVarDecides ==
    (Probed("shell") /\ env["SHELL"].ok) =>
        LET s == env["SHELL"].v
            r == info.shell
        IN  /\ \E k \in 0..Len(s) :
                  /\ r = SubSeq(s, k + 1, Len(s))
                  /\ k = 0 \/ s[k] = "/"
            /\ \A i \in 1..Len(r) : r[i] # "/"
            /\ s = <<"/", "b", "i", "n", "/", "z", "s", "h">> => r = <<"z", "s", "h">>

\* SHELL=/bin/zsh on Windows with PSModulePath set and a parent shell listed
C5_Witness ==
    /\ Probed("shell")
    /\ target_os = "windows"
    /\ env["SHELL"] = Some(<<"/", "b", "i", "n", "/", "z", "s", "h">>)
    /\ env["PSModulePath"].ok
    /\ env["COMSPEC"].ok
    /\ info.shell = <<"z", "s", "h">>

\* C6: get_terminal_info scans TERM_PROGRAM, TERMINAL_EMULATOR,
\* KONSOLE_VERSION, GNOME_TERMINAL_SCREEN, XTERM_VERSION, ALACRITTY_SOCKET,
\* KITTY_WINDOW_ID, WEZTERM_EXECUTABLE in that order and the first one set
\* decides the result, whatever the platform markers, TERM and the process
\* queries hold.
C6_FirstTerminalVarDecides ==
    Probed("terminal") =>
        LET order == <<"TERM_PROGRAM", "TERMINAL_EMULATOR", "KONSOLE_VERSION",
                       "GNOME_TERMINAL_SCREEN", "XTERM_VERSION", "ALACRITTY_SOCKET",
                       "KITTY_WINDOW_ID", "WEZTERM_EXECUTABLE">>
            shown == <<env["TERM_PROGRAM"].v, env["TERMINAL_EMULATOR"].v, <<"K", "o", "n", "s", "o", "l", "e">>,
                       <<"G", "N", "O", "M", "E", " ", "T", "e", "r", "m", "i", "n", "a", "l">>, <<"x", "t", "e", "r", "m", " ">> \o env["XTERM_VERSION"].v,
                       <<"A", "l", "a", "c", "r", "i", "t", "t", "y">>, <<"K", "i", "t", "t", "y">>, <<"W", "e", "z", "T", "e", "r", "m">>>>
        IN  /\ \A i \in 1..8 :
                  (env[order[i]].ok /\ \A j \in 1..(i - 1) : ~env[order[j]].ok)
                      => info.terminal = shown[i]
            /\ env["TERM_PROGRAM"] = Some(<<"i", "T", "e", "r", "m", ".", "a", "p", "p">>) => info.terminal = <<"i", "T", "e", "r", "m", ".", "a", "p", "p">>

\* TERM_PROGRAM and a later marker both set, on Windows inside Windows Terminal
C6_Witness ==
    /\ Probed("terminal")
    /\ target_os = "windows"
    /\ env["TERM_PROGRAM"] = Some(<<"i", "T", "e", "r", "m", ".", "a", "p", "p">>)
    /\ env["KONSOLE_VERSION"].ok
    /\ env["WT_SESSION"].ok
    /\ info.terminal = <<"i", "T", "e", "r", "m", ".", "a", "p", "p">>

\* C7: format_uptime(s) with s = d*86400 + h*3600 + m*60 + r, h < 24, m < 60,
\* r < 60, is "{d}d {h}h {m}m" when d > 0, "{h}h {m}m" when d = 0 and h > 0,
\* and "{m}m" otherwise.
C7_UptimeFormat ==
    UptimeSet =>
        /\ \E d \in 0..(MaxDays + 1), h \in 0..23, m \in 0..59 :
              /\ sys.uptime - (d * 86400 + h * 3600 + m * 60) \in 0..59
              /\ info.uptime =
                    IF d > 0
                    THEN U64ToString(d) \o <<"d", " ">> \o U64ToString(h) \o <<"h", " ">>
                             \o U64ToString(m) \o <<"m">>
                    ELSE IF h > 0
                    THEN U64ToString(h) \o <<"h", " ">> \o U64ToString(m) \o <<"m">>
                    ELSE U64ToString(m) \o <<"m">>
        /\ sys.uptime = 0 => info.uptime = <<"0", "m">>
        /\ sys.uptime = 61 => info.uptime = <<"1", "m">>
        /\ sys.uptime = 3661 => info.uptime = <<"1", "h", " ", "1", "m">>
        /\ sys.uptime = 90061 => info.uptime = <<"1", "d", " ", "1", "h", " ", "1", "m">>
        /\ sys.uptime = 86400 => info.uptime = <<"1", "d", " ", "0", "h", " ", "0", "m">>

\* a day-scale uptime with an hour part
C7_Witness ==
    /\ UptimeSet
    /\ sys.uptime = 90061
    /\ info.uptime = <<"1", "d", " ", "1", "h", " ", "1", "m">>

\* C8: collect_cpu_info returns one CpuInfo per distinct model string, the
\* cores fields sum to the number of logical cores, and each entry carries the
\* frequency of the first core seen with its model.
C8_CpuGrouping ==
    Probed("cpu") =>
        LET in == sys.cpus
            out == info.cpus
            brands == {in[i].brand : i \in 1..Len(in)}
            sum[k \in 0..Len(out)] == IF k = 0 THEN 0 ELSE sum[k - 1] + out[k].cores
        IN  /\ Len(out) = Cardinality(brands)
            /\ {out[i].model : i \in 1..Len(out)} = brands
            /\ sum[Len(out)] = Len(in)
            /\ \A i \in 1..Len(out) :
                  \E j \in 1..Len(in) :
                      /\ in[j].brand = out[i].model
                      /\ \A l \in 1..(j - 1) : in[l].brand # out[i].model
                      /\ out[i].frequency = in[j].frequency

\* two models, the repeated one with differing frequencies
C8_Witness ==
    /\ Probed("cpu")
    /\ Len(sys.cpus) = 3
    /\ Len(info.cpus) = 2
    /\ sys.cpus[1].brand = sys.cpus[3].brand
    /\ sys.cpus[1].frequency # sys.cpus[3].frequency

\* C9: in every snapshot returned by collect(), each of os_name, os_version,
\* kernel_version, hostname, username, local_ip, shell and terminal is
\* non-empty, for every environment.
C9_NoEmptyStringField ==
    (Done /\ result = "Ok") =>
        /\ Len(info.os_name) > 0
        /\ Len(info.os_version) > 0
        /\ Len(info.kernel_version) > 0
        /\ Len(info.hostname) > 0
        /\ Len(info.username) > 0
        /\ Len(info.local_ip) > 0
        /\ Len(info.shell) > 0
        /\ Len(info.terminal) > 0

\* C10: every GpuInfo pushed by the Windows line parse has a non-empty name
\* and a non-empty vendor.
C10_PushedGpuHasNameAndVendor ==
    (Probed("gpu") /\ target_os = "windows" /\ info.gpus # SentinelGpus) =>
        \A i \in 1..Len(info.gpus) :
            Len(info.gpus[i].name) > 0 /\ Len(info.gpus[i].vendor) > 0

\* C11: on non-Windows targets with SHELL unset, get_shell_info returns the
\* command name of the parent process of the current process when the process
\* table gives a non-empty one, and "Unknown Shell" only when that query fails
\* or yields an empty name.
C11_ParentProcessNamed ==
    (Probed("shell") /\ target_os # "windows" /\ ~env["SHELL"].ok) =>
        LET name == Trim(cmds.ps_parent.stdout)
        IN  info.shell = IF cmds.ps_parent.ok /\ Len(name) > 0 THEN name
                         ELSE <<"U", "n", "k", "n", "o", "w", "n", " ", "S", "h", "e", "l", "l">>

\* C12 (as stated): the macOS scan yields, in order of appearance, exactly one
\* GpuInfo per occurrence of the marker that is followed by a closing quote,
\* named by the text between the marker and that quote.
C12_OnePerOccurrence ==
    pc = "mac_done" =>
        LET text == cmds.gpu.stdout
            occs == {i \in 0..(Len(text) - 11) : SubSeq(text, i + 1, i + 11) = <<"\"", "_", "n", "a", "m", "e", "\"", " ", ":", " ", "\"">>}
            quotes == {j \in 0..(Len(text) - 1) : text[j + 1] = "\""}
            closed == {i \in occs : \E j \in quotes : j >= i + 11}
        IN  /\ Len(scan.gpus) = Cardinality(closed)
            /\ \A i \in closed :
                  LET k == Cardinality({x \in closed : x <= i})
                      after == {j \in quotes : j >= i + 11}
                      q == CHOOSE j \in after : \A y \in after : j <= y
                  IN  scan.gpus[k].name = SubSeq(text, i + 12, q)

\* C12 (amended): the macOS scan terminates on every input text: its position
\* strictly increases on every iteration and never passes the end of the text.
\* It yields, in order, one GpuInfo per marker occurrence found by a
\* left-to-right search in which each search resumes at the closing quote of
\* the previous value (so an occurrence that begins inside the previous marker
\* and value is not counted), named by the text between the marker and the
\* next quote; it stops at the first such marker with no closing quote or when
\* no marker remains.
C12_ScanTerminatesAndExtracts ==
    /\ [][(pc = "mac_scan" /\ pc' = "mac_scan") =>
             (scan'.pos > scan.pos /\ Len(scan'.gpus) = Len(scan.gpus) + 1)]_vars
    /\ [](/\ scan.pos \in 0..Len(cmds.gpu.stdout)
          /\ pc = "mac_done" =>
                LET text == cmds.gpu.stdout
                    n == Len(scan.gpus)
                    occs == {i \in 0..(Len(text) - 11) : SubSeq(text, i + 1, i + 11) = <<"\"", "_", "n", "a", "m", "e", "\"", " ", ":", " ", "\"">>}
                    quotes == {j \in 0..(Len(text) - 1) : text[j + 1] = "\""}
                    Least(X) == CHOOSE x \in X : \A y \in X : x <= y
                    After(i) == {j \in quotes : j >= i + 11}
                IN  /\ \E m \in [1..n -> occs] :
                          /\ \A k \in 1..n :
                                /\ After(m[k]) # {}
                                /\ m[k] = Least({i \in occs :
                                              k = 1 \/ i >= Least(After(m[k - 1]))})
                                /\ scan.gpus[k].name =
                                       SubSeq(text, m[k] + 12, Least(After(m[k])))
                          /\ LET rest == {i \in occs :
                                            n = 0 \/ i >= Least(After(m[n]))}
                             IN  rest = {} \/ After(Least(rest)) = {}
                    /\ info.gpus = get_gpu_info_macos_list(cmds.gpu))

\* two names extracted, then a marker whose value is never closed
C12_Witness ==
    /\ pc = "mac_done"
    /\ Len(scan.gpus) = 2
    /\ scan.pos > 0
    /\ Find(DropFirst(cmds.gpu.stdout, scan.pos), NameMarker) >= 0

====
